---- MODULE Spec2Model ----
(***************************************************************************)
(* The session-token authenticated API client of low-stock-alert-react:    *)
(* context resolver, App Bridge singleton, axios request/response          *)
(* interceptors and the API operations, in the three versions of           *)
(* services/api.js the repository holds; and the two pages that call it,   *)
(* the setup wizard and the dashboard.                                     *)
(*                                                                         *)
(* Strings are sequences of tokens (a URL is split at its separators), so  *)
(* that String.includes / String.endsWith are computed, not assumed.       *)
(***************************************************************************)
EXTENDS Integers, Sequences, FiniteSets, TLC

VARIABLES variant, search, apiKey, env, instance, created, createCalls,
          ctxResolves, unavailable, rounds, reqs,
          window, appContext, wizard, dashboard

vars == <<variant, search, apiKey, env, instance, created, createCalls,
          ctxResolves, unavailable, rounds, reqs,
          window, appContext, wizard, dashboard>>

(*************************** bounds of the model ***************************)
\* caller activations (one awaited operation, or one dashboard load) per page load
MaxRounds == 2
\* the largest of the consecutive day counts handed to getTrend
MaxDays == 12
\* calls of validateAppContext() per page load
MaxResolves == 2
\* runs of Dashboard.fetchDashboardData (the mount effect, then Refresh) per page load
MaxLoads == 2

(******************************* values ************************************)
\* JavaScript null / an absent header
NULL == <<"<null>">>
EmptyStr == << >>
Truthy(v) == v # NULL /\ v # EmptyStr

\* the three versions of services/api.js
Variants == {"api", "part_000", "part_001"}

ShopValues == {NULL, EmptyStr,
               <<"acme", ".", "myshopify", ".", "com">>,
               <<"acme", ".", "example", ".", "com">>}
HostValues == {NULL, EmptyStr, <<"abc123">>}
Tokens == {"tok_xyz", "tok_abc"}

\* import.meta.env and window.location.hostname
Envs == {[PROD |-> TRUE,  MODE |-> "production",  hostname |-> "app.example.com"],
         [PROD |-> FALSE, MODE |-> "development", hostname |-> "localhost"],
         [PROD |-> FALSE, MODE |-> "development", hostname |-> "tunnel.example.com"]}

\* what the backend / network can answer: an HTTP status, or nothing at all
\* (network failure, or the client's timeout)
Statuses == {200, 404}
TransportOutcomes ==
  {[answered |-> TRUE, status |-> st] : st \in Statuses}
    \cup {[answered |-> FALSE, status |-> 0]}

Includes(s, p) ==
  \E i \in 0..(Len(s) - Len(p)) : SubSeq(s, i + 1, i + Len(p)) = p

EndsWith(s, suf) ==
  /\ Len(s) >= Len(suf)
  /\ SubSeq(s, Len(s) - Len(suf) + 1, Len(s)) = suf

(*************************** EnvironmentConfig *****************************)
isProduction ==
  IF variant = "part_001"
  THEN env.PROD \/ env.MODE = "production" \/ env.hostname # "localhost"
  ELSE env.PROD \/ env.hostname # "localhost"

isDevelopment ==
  IF variant = "part_001"
  THEN ~env.PROD \/ env.MODE = "development" \/ env.hostname = "localhost"
  ELSE ~env.PROD \/ env.hostname = "localhost"

getShopifyApiKey == apiKey

(**************************** ShopifyAppConfig *****************************)
MyShopifySuffix == <<".", "myshopify", ".", "com">>

getShopDomain ==
  IF variant = "part_001"
  THEN IF Truthy(search.shop) /\ EndsWith(search.shop, MyShopifySuffix)
       THEN search.shop
       ELSE IF isDevelopment /\ Truthy(search.shop) THEN search.shop ELSE NULL
  ELSE search.shop

Btoa(s) == <<"base64">> \o s

getHost ==
  IF variant = "part_001"
  THEN IF Truthy(search.host) THEN search.host
       ELSE IF isDevelopment /\ Truthy(getShopDomain)
            THEN Btoa(getShopDomain \o <<"/", "admin">>)
            ELSE NULL
  ELSE search.host

(******************************** errors ***********************************)
NoErr == [kind |-> "none", status |-> 0]
\* api.js:58 calls ShopifyAppConfig.logContext, which the class does not define
TypeErrorLogContext == [kind |-> "TypeError", status |-> 0]
\* new Error('App Bridge not available' / 'App Bridge not initialized ...')
BridgeUnavailable == [kind |-> "AppBridgeError", status |-> 0]
\* the library's getSessionToken(app) rejected
TokenExchangeError == [kind |-> "TokenExchangeError", status |-> 0]
\* axios: a response outside 2xx (error.response set)
ResponseError(s) == [kind |-> "response", status |-> s]
\* axios: request sent, nothing came back (error.request set, no error.response)
NoResponseError == [kind |-> "request", status |-> 0]
Response(s) == [kind |-> "ok", status |-> s]

(***************************** AppBridgeService ****************************)
\* the result of one getInstance() call: the handle returned (0 = null), the
\* exception raised (NoErr = none) and the static state it leaves behind
\* (construct: whether this call ran createApp, and how that ended)
GetInstanceResult(app, raised, construct, inst, ok, calls, ctx) ==
  [app |-> app, raised |-> raised, construct |-> construct, instance |-> inst,
   created |-> ok, createCalls |-> calls, ctxResolves |-> ctx]

Memoized == GetInstanceResult(instance, NoErr, "none", instance, created,
                              createCalls, ctxResolves)

\* `return null` before createApp is reached
Unavailable == GetInstanceResult(0, NoErr, "none", instance, created,
                                 createCalls, ctxResolves + 1)

\* try { this.instance = createApp({...}) } catch (error) { ... null }
TryCreateApp(createOutcome) ==
  IF createOutcome = "ok"
  THEN GetInstanceResult(created + 1, NoErr, "ok", created + 1, created + 1,
                         createCalls + 1, ctxResolves + 1)
  ELSE GetInstanceResult(0, NoErr, "threw", instance, created, createCalls + 1,
                         ctxResolves + 1)

\* src/services/api.js
getInstance_api(createOutcome) ==
  IF instance # 0 THEN Memoized
  ELSE GetInstanceResult(0, TypeErrorLogContext, "none", instance, created,
                         createCalls, ctxResolves)

\* mutant: the memo is not consulted, every call constructs
getInstance_part_000_NoMemo(createOutcome) ==
  IF ~Truthy(getShopifyApiKey) THEN Unavailable
  ELSE IF ~Truthy(getShopDomain) \/ ~Truthy(getHost) THEN Unavailable
  ELSE TryCreateApp(createOutcome)

\* mutant: a failed call is remembered as a sentinel and never retried
getInstance_part_000_Sentinel(createOutcome) ==
  IF instance # 0 \/ unavailable THEN Memoized
  ELSE IF ~Truthy(getShopifyApiKey) THEN Unavailable
  ELSE IF ~Truthy(getShopDomain) \/ ~Truthy(getHost) THEN Unavailable
  ELSE TryCreateApp(createOutcome)

getInstance_part_000(createOutcome) ==
  IF instance # 0 THEN Memoized
  ELSE IF ~Truthy(getShopifyApiKey) THEN Unavailable
  ELSE IF ~Truthy(getShopDomain) \/ ~Truthy(getHost) THEN Unavailable
  ELSE TryCreateApp(createOutcome)

\* mutant: the `if (!shop)` test is missing
getInstance_part_001_NoShopTest(createOutcome) ==
  IF instance # 0 THEN Memoized
  ELSE IF ~Truthy(getShopifyApiKey) THEN Unavailable
  ELSE IF ~Truthy(getHost) /\ isProduction THEN Unavailable
  ELSE TryCreateApp(createOutcome)

getInstance_part_001(createOutcome) ==
  IF instance # 0 THEN Memoized
  ELSE IF ~Truthy(getShopifyApiKey) THEN Unavailable
  ELSE IF ~Truthy(getShopDomain) THEN Unavailable
  ELSE IF ~Truthy(getHost) /\ isProduction THEN Unavailable
  ELSE TryCreateApp(createOutcome)

getInstance(createOutcome) ==
  CASE variant = "api"      -> getInstance_api(createOutcome)
    [] variant = "part_000" -> getInstance_part_000(createOutcome)
    [] variant = "part_001" -> getInstance_part_001(createOutcome)

\* the synchronous part of getSessionToken(): the error it rejects with before
\* the library exchange is started, NoErr when the exchange is started
SessionTokenEarlyError(g) ==
  IF g.raised # NoErr THEN g.raised
  ELSE IF g.app = 0 THEN BridgeUnavailable
  ELSE NoErr

(******************************* ApiService ********************************)
Ops == {"getStore", "saveSetup", "getSettings", "updateSettings",
        "getLowStock", "getStats", "getTrend", "healthCheck"}

DefaultDays == 30

Digit(d) == CASE d = 0 -> "0" [] d = 1 -> "1" [] d = 2 -> "2" [] d = 3 -> "3"
              [] d = 4 -> "4" [] d = 5 -> "5" [] d = 6 -> "6" [] d = 7 -> "7"
              [] d = 8 -> "8" [] d = 9 -> "9"

RECURSIVE NatToString(_)
NatToString(n) ==
  IF n < 10 THEN <<Digit(n)>> ELSE NatToString(n \div 10) \o <<Digit(n % 10)>>

\* `${days}` for an integer
NumberToString(n) == IF n < 0 THEN <<"-">> \o NatToString(-n) ELSE NatToString(n)

\* mutant: days below 1 are replaced by the default
TrendDays_Validated(args) ==
  IF Len(args) = 0 \/ args[1] < 1 THEN DefaultDays ELSE args[1]

\* getTrend(days = 30): args is the argument list of the call
TrendDays(args) == IF Len(args) = 0 THEN DefaultDays ELSE args[1]

UrlOf(op, args) ==
  CASE op = "getStore"       -> <<"/", "store">>
    [] op = "saveSetup"      -> <<"/", "setup">>
    [] op = "getSettings"    -> <<"/", "settings">>
    [] op = "updateSettings" -> <<"/", "settings">>
    [] op = "getLowStock"    -> <<"/", "dashboard", "/", "low-stock">>
    [] op = "getStats"       -> <<"/", "dashboard", "/", "stats">>
    [] op = "getTrend"       -> <<"/", "dashboard", "/", "trend", "?", "days", "=">>
                                \o NumberToString(TrendDays(args))
    [] op = "healthCheck"    -> <<"/", "health">>

MethodOf(op) ==
  CASE op = "saveSetup"      -> "post"
    [] op = "updateSettings" -> "put"
    [] OTHER                 -> "get"

\* the days a caller may hand to getTrend: nothing, or any number
TrendArgs == {<< >>} \cup {<<n>> : n \in ((-3) .. MaxDays) \cup {30, 365}}

\* the argument lists the operations are called with
ArgsOf(op) == IF op = "getTrend" THEN {<< >>, <<7>>} ELSE {<< >>}

PublicPath == <<"/", "public">>
HealthPath == <<"/", "health">>

\* part_001: requiresAuthentication(config)
publicEndpoints == {HealthPath, PublicPath}

\* mutant: every path is taken to require authentication
requiresAuthentication_Always(url) == TRUE

requiresAuthentication(url) ==
  ~(\E endpoint \in publicEndpoints : Includes(url, endpoint))

\* the public-path substrings each version's interceptor exempts
DenyList == IF variant = "part_001" THEN {HealthPath, PublicPath} ELSE {PublicPath}

\* the condition under which the request interceptor asks for a session token
NeedsToken(url) ==
  IF variant = "part_001"
  THEN requiresAuthentication(url)
  ELSE Truthy(getShopDomain) /\ ~Includes(url, PublicPath)

Bearer(token) == <<"Bearer", " ", token>>

(***************************** requests in flight ***************************)
\* Dashboard.jsx awaits three operations at once (Promise.all); every other
\* caller awaits one
Slots == {1, 2, 3}

Pending == [kind |-> "pending", val |-> NoErr]

IdleReq ==
  [op |-> "none", args |-> << >>, method |-> "none", url |-> << >>, pc |-> "idle",
   shopHdr |-> NULL, auth |-> NULL, app |-> 0, tokenAsked |-> 0, exchanges |-> 0,
   tok |-> NULL, tokenErr |-> NoErr, sends |-> 0, delivered |-> Pending,
   settled |-> Pending]

\* this.client.get/post/put(url): the config handed to the interceptor chain
NewReq(op, args) ==
  [IdleReq EXCEPT !.op = op, !.args = args, !.method = MethodOf(op),
                  !.url = UrlOf(op, args), !.pc = "queued"]

Settled(r) == r.pc \in {"idle", "resolved", "rejected"}

\* axios' transport: validateStatus fulfils on 2xx and rejects otherwise
Delivery(out) ==
  IF out.answered /\ out.status >= 200 /\ out.status < 300
  THEN [kind |-> "fulfilled", val |-> Response(out.status)]
  ELSE [kind |-> "rejected",
        val |-> IF out.answered THEN ResponseError(out.status) ELSE NoResponseError]

\* mutant: the success handler unwraps the response (`return response.data`)
ResponseFulfilled_Unwrap(response) ==
  [kind |-> "fulfilled", val |-> [kind |-> "data", status |-> 0]]

\* response interceptor, success handler: log, `return response`
ResponseFulfilled(response) == [kind |-> "fulfilled", val |-> response]

\* mutant: a 404 is swallowed and an empty response substituted
ResponseRejected_Swallow404(error) ==
  IF error = ResponseError(404)
  THEN [kind |-> "fulfilled", val |-> Response(0)]
  ELSE [kind |-> "rejected", val |-> error]

\* response interceptor, error handler: log, `return Promise.reject(error)`
ResponseRejected(error) == [kind |-> "rejected", val |-> error]

\* mutant: the error handler re-issues a request that got no response
Settle_Retry(r, delivered) ==
  IF delivered.kind = "rejected" /\ delivered.val = NoResponseError
  THEN [r EXCEPT !.pc = "queued"]
  ELSE [r EXCEPT !.delivered = delivered,
                 !.settled = IF delivered.kind = "fulfilled"
                             THEN ResponseFulfilled(delivered.val)
                             ELSE ResponseRejected(delivered.val),
                 !.pc = IF delivered.kind = "fulfilled" THEN "resolved" ELSE "rejected"]

\* the response interceptor receives what axios delivers (a response, or an
\* error) and its return value settles the promise the operation returned
Settle(r, delivered) ==
  LET outcome == IF delivered.kind = "fulfilled"
                 THEN ResponseFulfilled(delivered.val)
                 ELSE ResponseRejected(delivered.val)
  IN [r EXCEPT !.delivered = delivered,
               !.settled = outcome,
               !.pc = IF outcome.kind = "fulfilled" THEN "resolved" ELSE "rejected"]

\* the interceptor returned config: axios dispatches the request
Transmit(r) == [r EXCEPT !.pc = "inflight", !.sends = r.sends + 1]

\* the request interceptor threw: axios skips the dispatch and hands the error
\* to the response interceptor's error handler
AbortRequest(r, error) == Settle(r, [kind |-> "rejected", val |-> error])

\* mutant: the token error is always rethrown
OnTokenError_Strict(r, error) == AbortRequest([r EXCEPT !.tokenErr = error], error)

\* mutant: the token error is always dropped
OnTokenError_Lenient(r, error) == Transmit([r EXCEPT !.tokenErr = error])

\* catch (tokenError) of the request interceptor
OnTokenError(r, error) ==
  IF variant = "part_001" /\ isProduction
  THEN AbortRequest([r EXCEPT !.tokenErr = error], error)
  ELSE Transmit([r EXCEPT !.tokenErr = error])

\* mutant: the header is assigned without the `if (shop)` test
WithShopHeader_Unconditional(r) == [r EXCEPT !.shopHdr = getShopDomain]

\* config.headers['X-Shopify-Shop-Domain'] = shop, if (shop)
WithShopHeader(r) ==
  [r EXCEPT !.shopHdr = IF Truthy(getShopDomain) THEN getShopDomain ELSE NULL]

\* mutant: a token another request already holds is reused for the header
WithToken_Shared(r, token) ==
  LET held == {reqs[j].tok : j \in DOMAIN reqs} \ {NULL}
  IN [r EXCEPT !.tok = token,
               !.auth = IF held = {} THEN Bearer(token)
                        ELSE Bearer(CHOOSE t \in held : TRUE)]

\* config.headers['Authorization'] = `Bearer ${token}`
WithToken(r, token) == [r EXCEPT !.tok = token, !.auth = Bearer(token)]

(********************************** pages **********************************)
\* string to number, as the comparison `formData.threshold < 1` converts
DigitValue(c) ==
  CASE c = "0" -> 0 [] c = "1" -> 1 [] c = "2" -> 2 [] c = "3" -> 3 [] c = "4" -> 4
    [] c = "5" -> 5 [] c = "6" -> 6 [] c = "7" -> 7 [] c = "8" -> 8 [] c = "9" -> 9

DecimalDigits == {"0", "1", "2", "3", "4", "5", "6", "7", "8", "9"}

RECURSIVE ParseNat(_)
ParseNat(s) ==
  IF Len(s) = 0 THEN 0
  ELSE ParseNat(SubSeq(s, 1, Len(s) - 1)) * 10 + DigitValue(s[Len(s)])

IsNumeral(s) ==
  LET d == IF Len(s) > 0 /\ s[1] = "-" THEN Tail(s) ELSE s
  IN Len(d) > 0 /\ \A k \in 1..Len(d) : d[k] \in DecimalDigits

ParseInt(s) ==
  IF s[1] = "-" THEN 0 - ParseNat(Tail(s)) ELSE ParseNat(s)

\* Number(''): 0
ToNumber(s) == IF s = EmptyStr THEN 0 ELSE ParseInt(s)

\* what part_001's isEmbedded() reads: window.self !== window.top, the
\* referrer naming myshopify.com, 'embedded=1' in the query string
Windows == [framed : BOOLEAN, shopifyReferrer : BOOLEAN, embeddedFlag : BOOLEAN]
TopWindow == [framed |-> FALSE, shopifyReferrer |-> FALSE, embeddedFlag |-> FALSE]

\* no validateAppContext() result recorded yet
NoContext == [shop |-> NULL, host |-> NULL, isEmbedded |-> FALSE, calls |-> 0]

NoBody == [threshold |-> NULL, notify_email |-> NULL]
NoNavigation == [path |-> << >>, query |-> << >>]

\* SetupWizard's useState initial values; pc is handleFinish's position,
\* sent the form data handed to saveSetup, navigated the navigate() target
WizardMounted ==
  [step |-> 1, loading |-> FALSE, error |-> EmptyStr,
   formData |-> [threshold |-> <<"1", "0">>, notify_email |-> EmptyStr],
   pc |-> "idle", sent |-> NoBody, navigated |-> NoNavigation]

\* what the dashboard shows: the field of the response it was taken from and
\* the load that fetched it; null, [] and {} before the first load
NullValue == [from |-> "null", load |-> 0]
EmptyArray == [from |-> "[]", load |-> 0]
EmptyObject == [from |-> "{}", load |-> 0]
Payload(field, k) == [from |-> field, load |-> k]

\* Dashboard's useState initial values; runs holds the loads whose
\* fetchDashboardData is suspended on its Promise.all, effect tells whether
\* the mount effect has run
DashboardMounted ==
  [loading |-> TRUE, error |-> EmptyStr, store |-> NullValue,
   lowStockItems |-> EmptyArray, stats |-> EmptyObject, runs |-> {},
   effect |-> FALSE]

\* response.data of a 2xx response: a JSON object, or JSON null
Bodies == {"object", "null"}

LoadFailedMessage == <<"Failed to load dashboard data">>
\* a property of null was read in the try block
TypeErrorNullData == [kind |-> "TypeError", status |-> 0]

\* err.response?.data?.error || 'Failed to load dashboard data'
DashboardErrorMessage(err, serverMessage) ==
  IF err.kind = "response" /\ Truthy(serverMessage)
  THEN serverMessage ELSE LoadFailedMessage

\* Promise.all of the three requests: rejected with a rejection of one of
\* them, fulfilled when all three are
PromiseAllRejections ==
  {reqs[i].settled.val : i \in {j \in Slots : reqs[j].pc = "rejected"}}
PromiseAllFulfilled == \A i \in Slots : reqs[i].pc = "resolved"

\* mutant: each successful response is shown although another request failed
fetchDashboardData_Partial(d, k, rejection, storeBody, lowStockBody, serverMessage) ==
  IF rejection # NoErr
  THEN [d EXCEPT !.store = IF reqs[1].pc = "resolved"
                           THEN Payload("storeRes.data.store", k) ELSE d.store,
                 !.error = DashboardErrorMessage(rejection, serverMessage),
                 !.loading = FALSE, !.runs = d.runs \ {k}]
  ELSE [d EXCEPT !.store = Payload("storeRes.data.store", k),
                 !.lowStockItems = Payload("lowStockRes.data.low_stock_items", k),
                 !.stats = Payload("lowStockRes.data.stats", k),
                 !.loading = FALSE, !.runs = d.runs \ {k}]

\* fetchDashboardData after `await Promise.all`: the three setters in order,
\* the catch block when the await or a property read threw, then finally
fetchDashboardData(d, k, rejection, storeBody, lowStockBody, serverMessage) ==
  IF rejection # NoErr
  THEN [d EXCEPT !.error = DashboardErrorMessage(rejection, serverMessage),
                 !.loading = FALSE, !.runs = d.runs \ {k}]
  ELSE IF storeBody = "null"
  THEN [d EXCEPT !.error = DashboardErrorMessage(TypeErrorNullData, serverMessage),
                 !.loading = FALSE, !.runs = d.runs \ {k}]
  ELSE IF lowStockBody = "null"
  THEN [d EXCEPT !.store = Payload("storeRes.data.store", k),
                 !.error = DashboardErrorMessage(TypeErrorNullData, serverMessage),
                 !.loading = FALSE, !.runs = d.runs \ {k}]
  ELSE [d EXCEPT !.store = Payload("storeRes.data.store", k),
                 !.lowStockItems = Payload("lowStockRes.data.low_stock_items", k),
                 !.stats = Payload("lowStockRes.data.stats", k),
                 !.loading = FALSE, !.runs = d.runs \ {k}]

\* mutant: Refresh can be pressed while the spinner is shown
RefreshAvailable_WhileLoading == dashboard.effect

\* `if (loading) return <spinner>`: the page with the Refresh action is
\* rendered only when loading is false
RefreshAvailable == dashboard.effect /\ ~dashboard.loading

\* what the user can type into the wizard's two fields (type="number": a
\* numeral or nothing; type="email": free text)
ThresholdInputs == {EmptyStr, <<"0">>, <<"1">>, <<"1", "0">>, <<"-", "5">>}
EmailInputs == {EmptyStr, <<"owner">>, <<"owner", "@", "acme.com">>}

ThresholdMessage == <<"Please enter a valid threshold (minimum 1)">>
EmailMessage == <<"Please enter a valid email address">>
SetupFailedMessage == <<"Setup failed. Please try again.">>
\* err.response.data.error of a rejected saveSetup, when the body has one
ServerMessages == {NULL, EmptyStr, <<"Invalid setup data">>}

handleThresholdChange(w, value) == [w EXCEPT !.formData.threshold = value]
handleEmailChange(w, value) == [w EXCEPT !.formData.notify_email = value]

\* mutant: step 2 is left without looking at the email
handleNext_NoEmailTest(w) ==
  IF w.step = 1 /\ (w.formData.threshold = EmptyStr
                    \/ ToNumber(w.formData.threshold) < 1)
  THEN [w EXCEPT !.error = ThresholdMessage]
  ELSE [w EXCEPT !.error = EmptyStr, !.step = w.step + 1]

handleNext(w) ==
  IF w.step = 1 /\ (w.formData.threshold = EmptyStr
                    \/ ToNumber(w.formData.threshold) < 1)
  THEN [w EXCEPT !.error = ThresholdMessage]
  ELSE IF w.step = 2 /\ ~Includes(w.formData.notify_email, <<"@">>)
  THEN [w EXCEPT !.error = EmailMessage]
  ELSE [w EXCEPT !.error = EmptyStr, !.step = w.step + 1]

handleBack(w) == [w EXCEPT !.error = EmptyStr, !.step = w.step - 1]

\* new URLSearchParams(window.location.search).toString(): the parameters the
\* location has, in order, joined by '&'
URLSearchParamsToString(params) ==
  LET shop == IF params.shop = NULL THEN << >> ELSE <<"shop", "=">> \o params.shop
      host == IF params.host = NULL THEN << >> ELSE <<"host", "=">> \o params.host
  IN IF shop # << >> /\ host # << >> THEN shop \o <<"&">> \o host ELSE shop \o host

\* err.response?.data?.error || 'Setup failed. Please try again.'
SetupErrorMessage(err, serverMessage) ==
  IF err.kind = "response" /\ Truthy(serverMessage)
  THEN serverMessage ELSE SetupFailedMessage

\* part_001: ShopifyAppConfig.isEmbedded()
isEmbedded == window.framed \/ window.shopifyReferrer \/ window.embeddedFlag

\* mutant: isEmbedded follows the shop parameter alone
validateAppContext_ShopOnly ==
  [shop |-> getShopDomain, host |-> getHost, isEmbedded |-> Truthy(getShopDomain)]

\* ShopifyAppConfig.validateAppContext(): { shop, host, isEmbedded }
validateAppContext ==
  [shop |-> getShopDomain, host |-> getHost,
   isEmbedded |-> IF variant = "part_001" THEN isEmbedded
                  ELSE Truthy(getShopDomain) /\ Truthy(getHost)]

(********************************* actions *********************************)
Init ==
  /\ variant \in Variants
  /\ search \in [shop : ShopValues, host : HostValues]
  /\ apiKey \in {NULL, <<"api-key">>}
  /\ env \in Envs
  /\ instance = 0
  /\ created = 0
  /\ createCalls = 0
  /\ ctxResolves = 0
  /\ unavailable = FALSE
  /\ rounds = 0
  /\ reqs = [i \in Slots |-> IdleReq]
  /\ window = TopWindow
  /\ appContext = NoContext
  /\ wizard = WizardMounted
  /\ dashboard = DashboardMounted

Config == <<variant, search, apiKey, env, window>>
Pages == <<appContext, wizard, dashboard>>
Bridge == <<instance, created, createCalls, ctxResolves, unavailable>>

\* a caller awaits one API operation (the callers of the repository await what
\* they start: the wizard one saveSetup, the dashboard its three at once)
Call(op, args) ==
  /\ rounds < MaxRounds
  /\ \A i \in Slots : Settled(reqs[i])
  /\ rounds' = rounds + 1
  /\ reqs' = [i \in Slots |-> IF i = 1 THEN NewReq(op, args) ELSE IdleReq]
  /\ UNCHANGED <<Config, Bridge, Pages>>

\* Dashboard.fetchDashboardData: Promise.all of three operations
FetchDashboardData ==
  /\ rounds < MaxRounds
  /\ \A i \in Slots : Settled(reqs[i])
  /\ rounds' = rounds + 1
  /\ reqs' = [i \in Slots |->
                CASE i = 1 -> NewReq("getStore", << >>)
                  [] i = 2 -> NewReq("getLowStock", << >>)
                  [] i = 3 -> NewReq("getStats", << >>)]
  /\ UNCHANGED <<Config, Bridge, Pages>>

\* the request interceptor up to its first suspension: tenant header, the
\* decision to authenticate, getSessionToken() up to the library exchange
Outbound(i) ==
  /\ reqs[i].pc = "queued"
  /\ LET r == WithShopHeader(reqs[i]) IN
     IF ~NeedsToken(r.url)
     THEN /\ reqs' = [reqs EXCEPT ![i] = Transmit(r)]
          /\ UNCHANGED Bridge
     ELSE \E createOutcome \in {"ok", "throw"} :
            LET g == getInstance(createOutcome)
                early == SessionTokenEarlyError(g)
                asked == [r EXCEPT !.tokenAsked = r.tokenAsked + 1, !.app = g.app]
            IN /\ instance' = g.instance
               /\ created' = g.created
               /\ createCalls' = g.createCalls
               /\ ctxResolves' = g.ctxResolves
               /\ unavailable' = (unavailable \/ (g.app = 0 /\ g.raised = NoErr))
               /\ reqs' = [reqs EXCEPT ![i] =
                             IF early # NoErr
                             THEN OnTokenError(asked, early)
                             ELSE [asked EXCEPT !.pc = "awaitToken",
                                                !.exchanges = asked.exchanges + 1]]
  /\ UNCHANGED <<Config, rounds, Pages>>

\* the library's getSessionToken(app) resolves with a token
TokenResolves(i, token) ==
  /\ reqs[i].pc = "awaitToken"
  /\ reqs' = [reqs EXCEPT ![i] = Transmit(WithToken(reqs[i], token))]
  /\ UNCHANGED <<Config, Bridge, rounds, Pages>>

\* the library's getSessionToken(app) rejects
TokenRejects(i) ==
  /\ reqs[i].pc = "awaitToken"
  /\ reqs' = [reqs EXCEPT ![i] = OnTokenError(reqs[i], TokenExchangeError)]
  /\ UNCHANGED <<Config, Bridge, rounds, Pages>>

\* axios settles the transmitted request (validateStatus: 2xx fulfils) and the
\* response interceptor runs
Respond(i, out) ==
  /\ reqs[i].pc = "inflight"
  /\ reqs' = [reqs EXCEPT ![i] = Settle(reqs[i], Delivery(out))]
  /\ UNCHANGED <<Config, Bridge, rounds, Pages>>

Next ==
  \/ \E op \in Ops : \E args \in ArgsOf(op) : Call(op, args)
  \/ FetchDashboardData
  \/ \E i \in Slots : Outbound(i)
  \/ \E i \in Slots : \E token \in Tokens : TokenResolves(i, token)
  \/ \E i \in Slots : TokenRejects(i)
  \/ \E i \in Slots : \E out \in TransportOutcomes : Respond(i, out)

Spec == Init /\ [][Next]_vars

\* callers of getTrend only, with every day count of TrendArgs
NextTrend ==
  \/ \E args \in TrendArgs : Call("getTrend", args)
  \/ \E i \in Slots : Outbound(i)
  \/ \E i \in Slots : \E token \in Tokens : TokenResolves(i, token)
  \/ \E i \in Slots : TokenRejects(i)
  \/ \E i \in Slots : \E out \in TransportOutcomes : Respond(i, out)

SpecTrend == Init /\ [][NextTrend]_vars

\* App renders the routes only with a shop parameter (`if (!shop)`)
InitWizard == Init /\ Truthy(search.shop)

WizardOpen == wizard.navigated = NoNavigation

\* step 1's TextField onChange
ThresholdChange(value) ==
  /\ WizardOpen /\ wizard.step = 1
  /\ wizard' = handleThresholdChange(wizard, value)
  /\ UNCHANGED <<Config, Bridge, rounds, reqs, appContext, dashboard>>

\* step 2's TextField onChange
EmailChange(value) ==
  /\ WizardOpen /\ wizard.step = 2
  /\ wizard' = handleEmailChange(wizard, value)
  /\ UNCHANGED <<Config, Bridge, rounds, reqs, appContext, dashboard>>

\* the Next button of the step 1 and step 2 cards
HandleNext ==
  /\ WizardOpen /\ wizard.step \in {1, 2}
  /\ wizard' = handleNext(wizard)
  /\ UNCHANGED <<Config, Bridge, rounds, reqs, appContext, dashboard>>

\* the Back button of the step 2 and step 3 cards
HandleBack ==
  /\ WizardOpen /\ wizard.step \in {2, 3}
  /\ wizard' = handleBack(wizard)
  /\ UNCHANGED <<Config, Bridge, rounds, reqs, appContext, dashboard>>

\* the error banner's onDismiss
DismissWizardError ==
  /\ WizardOpen /\ wizard.error # EmptyStr
  /\ wizard' = [wizard EXCEPT !.error = EmptyStr]
  /\ UNCHANGED <<Config, Bridge, rounds, reqs, appContext, dashboard>>

\* handleFinish up to `await apiService.saveSetup(formData)`: the button is on
\* the step 3 card and is disabled while loading
HandleFinish ==
  /\ WizardOpen /\ wizard.step = 3 /\ ~wizard.loading
  /\ rounds < MaxRounds
  /\ rounds' = rounds + 1
  /\ wizard' = [wizard EXCEPT !.loading = TRUE, !.error = EmptyStr,
                              !.pc = "awaiting", !.sent = wizard.formData]
  /\ reqs' = [i \in Slots |-> IF i = 1 THEN NewReq("saveSetup", << >>) ELSE IdleReq]
  /\ UNCHANGED <<Config, Bridge, appContext, dashboard>>

\* handleFinish after the await: navigate, or the catch block
FinishAwaited ==
  /\ wizard.pc = "awaiting"
  /\ reqs[1].pc \in {"resolved", "rejected"}
  /\ \E serverMessage \in ServerMessages :
       wizard' =
         IF reqs[1].pc = "resolved"
         THEN [wizard EXCEPT !.pc = "idle",
                             !.navigated = [path |-> <<"/", "dashboard">>,
                                            query |-> URLSearchParamsToString(search)]]
         ELSE [wizard EXCEPT !.pc = "idle",
                             !.error = SetupErrorMessage(reqs[1].settled.val,
                                                         serverMessage),
                             !.loading = FALSE]
  /\ UNCHANGED <<Config, Bridge, rounds, reqs, appContext, dashboard>>

NextWizard ==
  \/ \E value \in ThresholdInputs : ThresholdChange(value)
  \/ \E value \in EmailInputs : EmailChange(value)
  \/ HandleNext
  \/ HandleBack
  \/ DismissWizardError
  \/ HandleFinish
  \/ FinishAwaited
  \/ Outbound(1)
  \/ \E token \in Tokens : TokenResolves(1, token)
  \/ TokenRejects(1)
  \/ \E out \in TransportOutcomes : Respond(1, out)

SpecWizard == InitWizard /\ [][NextWizard]_vars

\* the Dashboard route is mounted (App renders it only with a shop
\* parameter), opened from the platform: shop, host and application key
\* present, in a production build
InitDashboard ==
  /\ Init
  /\ search = [shop |-> <<"acme", ".", "myshopify", ".", "com">>, host |-> <<"abc123">>]
  /\ apiKey = <<"api-key">>
  /\ env.PROD

\* fetchDashboardData up to `await Promise.all([...])`. The three requests
\* take the places of the previous load's: a load is started when what is
\* left of the previous one has settled (requests still in flight after
\* Promise.all rejected are awaited by nobody)
StartLoad ==
  /\ rounds < MaxLoads
  /\ \A i \in Slots : Settled(reqs[i])
  /\ rounds' = rounds + 1
  /\ dashboard' = [dashboard EXCEPT !.loading = TRUE, !.error = EmptyStr,
                                    !.runs = dashboard.runs \cup {rounds + 1},
                                    !.effect = TRUE]
  /\ reqs' = [i \in Slots |->
                CASE i = 1 -> NewReq("getStore", << >>)
                  [] i = 2 -> NewReq("getLowStock", << >>)
                  [] i = 3 -> NewReq("getStats", << >>)]
  /\ UNCHANGED <<Config, Bridge, appContext, wizard>>

\* useEffect(() => { fetchDashboardData(); }, [])
MountEffect == ~dashboard.effect /\ StartLoad

\* the page's primary action: Refresh
Refresh == RefreshAvailable /\ StartLoad

\* the k-th fetchDashboardData resumes after its await
LoadAwaited(k) ==
  /\ k \in dashboard.runs
  /\ \E serverMessage \in ServerMessages :
       \/ \E rejection \in PromiseAllRejections :
            dashboard' = fetchDashboardData(dashboard, k, rejection,
                                            "object", "object", serverMessage)
       \/ /\ PromiseAllFulfilled
          /\ \E storeBody \in Bodies, lowStockBody \in Bodies :
               dashboard' = fetchDashboardData(dashboard, k, NoErr,
                                               storeBody, lowStockBody, serverMessage)
  /\ UNCHANGED <<Config, Bridge, rounds, reqs, appContext, wizard>>

\* the error banner's onDismiss
DismissDashboardError ==
  /\ ~dashboard.loading /\ dashboard.error # EmptyStr
  /\ dashboard' = [dashboard EXCEPT !.error = EmptyStr]
  /\ UNCHANGED <<Config, Bridge, rounds, reqs, appContext, wizard>>

\* what happens without the user: the effect, the requests, the continuation
DashboardProgress ==
  \/ MountEffect
  \/ \E k \in 1..MaxLoads : LoadAwaited(k)
  \/ \E i \in Slots : Outbound(i)
  \/ \E i \in Slots : TokenResolves(i, "tok_xyz")
  \/ \E i \in Slots : TokenRejects(i)
  \/ \E i \in Slots : \E out \in TransportOutcomes : Respond(i, out)

NextDashboard ==
  \/ DashboardProgress
  \/ Refresh
  \/ DismissDashboardError

SpecDashboard == InitDashboard /\ [][NextDashboard]_vars

\* every request settles (axios has a timeout) and the event loop runs what is
\* ready; the user need not do anything
SpecDashboardFair == SpecDashboard /\ WF_vars(DashboardProgress)

\* a page load in any window, with any navigation parameters
InitContext ==
  /\ variant \in Variants
  /\ search \in [shop : ShopValues, host : HostValues]
  /\ apiKey \in {NULL, <<"api-key">>}
  /\ env \in Envs
  /\ window \in Windows
  /\ instance = 0
  /\ created = 0
  /\ createCalls = 0
  /\ ctxResolves = 0
  /\ unavailable = FALSE
  /\ rounds = 0
  /\ reqs = [i \in Slots |-> IdleReq]
  /\ appContext = NoContext
  /\ wizard = WizardMounted
  /\ dashboard = DashboardMounted

\* a caller resolves the context and keeps the result
ValidateAppContext ==
  /\ appContext.calls < MaxResolves
  /\ appContext' = [shop |-> validateAppContext.shop,
                    host |-> validateAppContext.host,
                    isEmbedded |-> validateAppContext.isEmbedded,
                    calls |-> appContext.calls + 1]
  /\ UNCHANGED <<Config, Bridge, rounds, reqs, wizard, dashboard>>

NextContext == ValidateAppContext

SpecContext == InitContext /\ [][NextContext]_vars

(********************************* claims **********************************)
Issued == {reqs[i] : i \in {j \in Slots : reqs[j].pc # "idle"}}
Transmitted == {r \in Issued : r.sends > 0}
NonPublicOps == Ops \ {"healthCheck"}

\* shop and host in the navigation parameters, application key configured
ValidContext == Truthy(search.shop) /\ Truthy(search.host) /\ Truthy(apiKey)

\* C1: with a non-empty shop and host, the application key configured and
\* neither the bridge constructor nor the token exchange failing, every
\* transmitted request of a non-public operation carries
\* Authorization = "Bearer T", T the token its own exchange returned.
C1_BearerOfOwnExchange ==
  \A r \in Transmitted :
    ( /\ r.op \in NonPublicOps
      /\ ValidContext
      /\ createCalls = created
      /\ r.tokenErr # TokenExchangeError )
    => (r.tok \in Tokens /\ r.auth = Bearer(r.tok))

\* C2: a request whose URL contains a denylisted public-path substring never
\* asks for a session token and never carries an Authorization header.
C2_PublicPathNeverAuthenticated ==
  \A r \in Issued :
    (\E p \in DenyList : Includes(r.url, p))
    => (r.tokenAsked = 0 /\ r.exchanges = 0 /\ r.auth = NULL)

C2_Witness ==
  \E r \in Transmitted :
    /\ \E p \in DenyList : Includes(r.url, p)
    /\ instance # 0
    /\ Truthy(getShopDomain)
    /\ r.shopHdr = search.shop

\* C3: the request of healthCheck() is transmitted without an Authorization
\* header.
C3_HealthCheckUnauthenticated ==
  \A r \in Transmitted : r.op = "healthCheck" => r.auth = NULL

\* C4: createApp succeeds at most once per page load; once the static instance
\* holds a handle it never changes, createApp is never called again, and every
\* getInstance() hands out that handle.
C4_Handles ==
  /\ created <= 1
  /\ instance = created
  /\ \A r \in Issued : r.app \in {0, instance}

C4_ConstructedOnce ==
  /\ []C4_Handles
  /\ [][instance # 0 => (instance' = instance /\ createCalls' = createCalls)]_vars

C4_Witness ==
  \E i, j \in Slots :
    /\ i # j
    /\ reqs[i].pc = "awaitToken" /\ reqs[i].app = 1
    /\ reqs[j].pc = "awaitToken" /\ reqs[j].app = 1
    /\ createCalls = 1

\* C5 (as stated): after a getInstance() that returned "unavailable", no later
\* getInstance() resolves the context again, calls createApp again or returns
\* a handle.
C5_FailureIsMemoized ==
  [][unavailable => /\ ctxResolves' = ctxResolves
                    /\ createCalls' = createCalls
                    /\ instance' = 0]_vars

\* the step in which request i's interceptor calls getSessionToken()
AsksToken(i) == reqs[i].pc = "queued" /\ reqs'[i].tokenAsked = 1

\* what the versions that reach createApp require for it
ConstructorReachable ==
  /\ variant # "api"
  /\ Truthy(apiKey)
  /\ Truthy(getShopDomain)
  /\ Truthy(getHost) \/ (variant = "part_001" /\ ~isProduction)

\* C5 (amended): only a successful construction is memoized. While no handle
\* exists, every getInstance() of part_000/part_001 resolves the context again
\* and calls createApp again exactly when key, shop and host are there; with
\* one of them missing createApp is never called and no handle ever exists;
\* api.js never reaches either.
C5_OnlySuccessIsMemoized ==
  /\ [](~ConstructorReachable => (createCalls = 0 /\ instance = 0))
  /\ [](variant = "api" => ctxResolves = 0)
  /\ [][\A i \in Slots :
          (AsksToken(i) /\ instance = 0 /\ variant # "api")
          => /\ ctxResolves' = ctxResolves + 1
             /\ createCalls' = IF ConstructorReachable THEN createCalls + 1
                               ELSE createCalls]_vars

C5_Witness ==
  /\ unavailable
  /\ createCalls = 2
  /\ created = 1
  /\ \E r \in Issued : r.app = 1

\* C6: with no shop parameter, or an empty one, no transmitted request carries
\* an X-Shopify-Shop-Domain header.
C6_NoTenantNoHeader ==
  \A r \in Transmitted : ~Truthy(search.shop) => r.shopHdr = NULL

C6_Witness ==
  \E r \in Transmitted : search.shop = EmptyStr /\ r.shopHdr = NULL

\* the versions and environments in which the interceptor drops a token error
AvailabilityPolicy == variant \in {"api", "part_000"} \/ ~isProduction

\* C7: under the availability-favouring policy a failed token acquisition
\* never aborts the request: it is transmitted once, without Authorization,
\* with the tenant header when the navigation parameters name a tenant.
C7_TokenFailureStillTransmits ==
  \A r \in Issued :
    (AvailabilityPolicy /\ r.tokenErr # NoErr)
    => /\ r.sends = 1
       /\ r.delivered.val # r.tokenErr
       /\ r.auth = NULL
       /\ (Truthy(search.shop) => r.shopHdr = search.shop)

C7_Witness ==
  \E r \in Issued :
    /\ variant = "part_001" /\ ~isProduction
    /\ r.tokenErr = TokenExchangeError
    /\ r.sends = 1
    /\ r.shopHdr = search.shop

\* C8: in the production branch of part_001 a failed token acquisition aborts
\* the request: nothing is transmitted and the operation's promise rejects
\* with the token error.
C8_TokenFailureAborts ==
  \A r \in Issued :
    (variant = "part_001" /\ isProduction /\ r.tokenErr # NoErr)
    => /\ r.sends = 0
       /\ r.pc = "rejected"
       /\ r.auth = NULL
       /\ r.settled = [kind |-> "rejected", val |-> r.tokenErr]

C8_Witness ==
  \E r \in Issued :
    /\ variant = "part_001" /\ isProduction
    /\ r.tokenErr = TokenExchangeError
    /\ r.pc = "rejected"

\* C9: whatever failure reaches the inbound stage (a non-2xx response, no
\* response, a request that was never sent), the operation's promise rejects
\* with that same error.
C9_ErrorsSurfaceUnchanged ==
  \A r \in Issued :
    r.delivered.kind = "rejected"
    => /\ r.pc = "rejected"
       /\ r.settled = [kind |-> "rejected", val |-> r.delivered.val]

C9_Witness ==
  \E r \in Issued :
    /\ r.delivered = [kind |-> "rejected", val |-> ResponseError(404)]
    /\ r.settled.val.status = 404
    /\ r.pc = "rejected"

C10_Counts == \A r \in Issued : r.sends <= 1 /\ r.exchanges <= 1 /\ r.tokenAsked <= 1

\* C10: one call of an operation causes at most one token exchange and at most
\* one transmission whatever the outcome, and a settled call stays as it is
\* until the caller calls again.
C10_NoAutomaticRetry ==
  /\ []C10_Counts
  /\ [][\A i \in Slots :
          reqs[i].pc \in {"resolved", "rejected"}
          => (reqs'[i] = reqs[i] \/ rounds' = rounds + 1)]_vars

C10_Witness ==
  \E r \in Issued :
    /\ r.pc = "rejected"
    /\ r.delivered.val = NoResponseError
    /\ r.sends = 1
    /\ r.exchanges = 1

\* C11: every transmitted request that carries an Authorization header also
\* carries X-Shopify-Shop-Domain, set to the shop of the navigation parameters.
C11_BearerImpliesTenantHeader ==
  \A r \in Transmitted :
    r.auth # NULL => (Truthy(search.shop) /\ r.shopHdr = search.shop)

C11_Witness ==
  \E r \in Transmitted :
    /\ variant = "part_001"
    /\ r.auth = Bearer(r.tok)
    /\ r.shopHdr = search.shop

\* C12: getInstance() never raises (a token error is never an exception that
\* escaped getInstance); with the application key or the shop missing it
\* returns no handle and createApp is not called.
C12_GetInstanceNeverRaises ==
  /\ \A r \in Issued : r.tokenErr \in {NoErr, BridgeUnavailable, TokenExchangeError}
  /\ (~Truthy(apiKey) \/ ~Truthy(search.shop)) => (createCalls = 0 /\ instance = 0)

C13_OwnToken ==
  \A r \in Issued :
    /\ r.auth # NULL => (r.exchanges = 1 /\ r.tok \in Tokens /\ r.auth = Bearer(r.tok))
    /\ r.pc = "awaitToken" => (r.exchanges = 1 /\ r.tok = NULL /\ r.auth = NULL)

\* C13: every authenticated request runs its own token exchange and carries
\* the token that exchange returned, also with several requests in flight; a
\* step of one request changes no other request.
C13_TokensNotShared ==
  /\ []C13_OwnToken
  /\ [][rounds' = rounds
        => Cardinality({i \in Slots : reqs'[i] # reqs[i]}) <= 1]_vars

C13_Witness ==
  \E i, j \in Slots :
    /\ reqs[i].pc = "inflight" /\ reqs[j].pc = "inflight"
    /\ reqs[i].tok \in Tokens /\ reqs[j].tok \in Tokens
    /\ reqs[i].tok # reqs[j].tok
    /\ reqs[i].app = reqs[j].app

\* C16: a successful response passes the inbound stage unchanged: the
\* operation resolves with the response the transport delivered.
C16_ResponseUnchanged ==
  \A r \in Issued :
    r.delivered.kind = "fulfilled"
    => /\ r.pc = "resolved"
       /\ r.settled = [kind |-> "fulfilled", val |-> r.delivered.val]

C16_Witness ==
  \E r \in Issued :
    /\ r.settled = [kind |-> "fulfilled", val |-> Response(200)]
    /\ r.op = "saveSetup"

TrendPath == <<"/", "dashboard", "/", "trend", "?", "days", "=">>

\* C14: getTrend() requests /dashboard/trend?days=30 and getTrend(N) requests
\* /dashboard/trend?days=N for every N, zero and negative N included: the
\* numeral in the query string reads back as the number that was passed.
C14_TrendDaysPassedThrough ==
  \A r \in Issued :
    r.op = "getTrend"
    => LET q == SubSeq(r.url, Len(TrendPath) + 1, Len(r.url))
       IN /\ r.method = "get"
          /\ SubSeq(r.url, 1, Len(TrendPath)) = TrendPath
          /\ IsNumeral(q)
          /\ ParseInt(q) = (IF r.args = << >> THEN 30 ELSE r.args[1])
          /\ r.args = << >> => q = <<"3", "0">>
          /\ r.args = <<7>> => q = <<"7">>

C14_Witness ==
  /\ rounds = 2
  /\ \E r \in Transmitted :
       /\ r.op = "getTrend"
       /\ r.args = <<7>>
       /\ r.url = TrendPath \o <<"7">>

BothParameters == Truthy(search.shop) /\ Truthy(search.host)

\* C15: the resolved context has isEmbedded = true exactly when the shop and
\* the host navigation parameters are both present and non-empty.
C15_EmbeddedIffShopAndHost ==
  appContext.calls > 0 => (appContext.isEmbedded <=> BothParameters)

C15_Resolved ==
  appContext.calls > 0
  => /\ variant # "part_001"
        => /\ appContext.isEmbedded <=> BothParameters
           /\ appContext.shop = search.shop
           /\ appContext.host = search.host
     /\ variant = "part_001"
        => (appContext.isEmbedded
            <=> (window.framed \/ window.shopifyReferrer \/ window.embeddedFlag))

\* C15 as the code has it: api.js and part_000 report isEmbedded exactly when
\* shop and host are both non-empty; part_001 reports it from the window's
\* framing, the referrer and the embedded=1 flag; in every version a repeated
\* call within the page load returns the same shop, host and isEmbedded.
C15_EmbeddedPerVersion ==
  /\ []C15_Resolved
  /\ [][appContext.calls > 0
        => /\ appContext'.shop = appContext.shop
           /\ appContext'.host = appContext.host
           /\ appContext'.isEmbedded = appContext.isEmbedded]_vars

C15_Witness ==
  /\ appContext.calls = 2
  /\ variant = "part_001"
  /\ appContext.isEmbedded
  /\ ~Truthy(search.shop)
  /\ window.framed

\* threshold non-empty and not below 1, notify_email containing '@'
ValidFormData(fd) ==
  /\ IsNumeral(fd.threshold) /\ ParseInt(fd.threshold) >= 1
  /\ \E k \in 1..Len(fd.notify_email) : fd.notify_email[k] = "@"

C17_Step3IsValid ==
  /\ wizard.step \in 1..3
  /\ wizard.step = 3 => ValidFormData(wizard.formData)
  /\ reqs[1].op = "saveSetup" => wizard.sent # NoBody
  /\ wizard.sent # NoBody => ValidFormData(wizard.sent)

\* C17: saveSetup is issued from step 3 only and with valid form data; in
\* every state with step = 3 the form data is valid; the threshold changes at
\* step 1 only, the email at step 2 only, and step stays within 1..3.
C17_SaveSetupOnlyWhenValid ==
  /\ []C17_Step3IsValid
  /\ [][/\ (reqs'[1] # reqs[1] /\ reqs'[1].pc = "queued")
           => (wizard.step = 3 /\ wizard'.sent = wizard.formData)
        /\ wizard'.formData.threshold # wizard.formData.threshold
           => wizard.step = 1
        /\ wizard'.formData.notify_email # wizard.formData.notify_email
           => wizard.step = 2]_vars

C17_Witness ==
  /\ wizard.step = 3
  /\ wizard.pc = "awaiting"
  /\ wizard.formData.threshold = <<"1">>
  /\ wizard.sent = wizard.formData
  /\ reqs[1].op = "saveSetup" /\ reqs[1].sends = 1
  /\ rounds = 2

\* C18: when handleFinish's saveSetup fails the wizard is on step 3 with the
\* form data unchanged, loading false, a non-empty error and no navigation;
\* when it succeeds the wizard navigates to /dashboard with exactly the query
\* parameters of the location and sets no error.
C18_FinishOutcome ==
  [][(wizard.pc = "awaiting" /\ wizard'.pc = "idle")
     => IF reqs[1].pc = "rejected"
        THEN /\ wizard'.step = 3
             /\ wizard'.formData = wizard.formData
             /\ ~wizard'.loading
             /\ Truthy(wizard'.error)
             /\ wizard'.navigated = NoNavigation
        ELSE /\ wizard'.navigated.path = <<"/", "dashboard">>
             /\ Includes(wizard'.navigated.query, <<"shop", "=">> \o search.shop)
             /\ search.host # NULL
                => Includes(wizard'.navigated.query, <<"host", "=">> \o search.host)
             /\ search.host = NULL => ~Includes(wizard'.navigated.query, <<"host">>)
             /\ wizard'.error = EmptyStr]_vars

Shown == <<dashboard.store, dashboard.lowStockItems, dashboard.stats>>
AllThreeSucceeded ==
  \A i \in Slots : reqs[i].pc = "resolved" /\ reqs[i].delivered.kind = "fulfilled"
OneFailed == \E i \in Slots : reqs[i].pc = "rejected"
RunEnds == dashboard.runs # {} /\ dashboard'.runs = {}

\* C19: store, lowStockItems and stats change only in the step that ends a
\* fetchDashboardData run whose three requests all succeeded; a run that ends
\* with one of its requests failed changes none of the three and sets a
\* non-empty error.
C19_AllOrNothing ==
  [][/\ Shown' # Shown => (RunEnds /\ AllThreeSucceeded)
     /\ (RunEnds /\ OneFailed)
        => (Shown' = Shown /\ Truthy(dashboard'.error) /\ ~dashboard'.loading)]_vars

C19_Witness ==
  /\ rounds = 2 /\ dashboard.runs = {} /\ ~dashboard.loading
  /\ OneFailed
  /\ dashboard.error = LoadFailedMessage
  /\ dashboard.store = Payload("storeRes.data.store", 1)
  /\ dashboard.lowStockItems = Payload("lowStockRes.data.low_stock_items", 1)
  /\ dashboard.stats = Payload("lowStockRes.data.stats", 1)

\* C20: every fetchDashboardData run ends, with loading = false, whatever its
\* requests do, provided they settle; a run is started only while no other is
\* in flight, and loading is true for as long as one is.
C20_LoadEndsAndIsAlone ==
  /\ dashboard.loading ~> ~dashboard.loading
  /\ [](/\ Cardinality(dashboard.runs) <= 1
        /\ dashboard.runs # {} => dashboard.loading
        /\ dashboard.effect /\ dashboard.runs = {} => ~dashboard.loading)
  /\ [][dashboard'.runs \ dashboard.runs # {}
        => (dashboard.runs = {} /\ (dashboard.loading => ~dashboard.effect))]_vars

C20_Witness ==
  /\ rounds = 2 /\ dashboard.runs = {} /\ ~dashboard.loading
  /\ dashboard.store = Payload("storeRes.data.store", 2)
  /\ dashboard.error = EmptyStr
  /\ AllThreeSucceeded

====
